---- MODULE Spec2Model ----
(***************************************************************************)
(* Storage glue of the kan web application: the storage facade (s3.ts),    *)
(* the upload file server, the attachment downloader, the health / stats   *)
(* router and the admin middleware of the tRPC layer.                      *)
(*                                                                         *)
(* Strings are sequences of one-character strings, so that slicing,        *)
(* prefix tests, splitting and joining are computed as the code computes   *)
(* them.  JavaScript's undefined and null are the two sentinels below.     *)
(***************************************************************************)
EXTENDS Integers, Sequences, FiniteSets, TLC

VARIABLES
    env,      \* the process environment (static for the life of the process)
    disk,     \* the regular files that exist, as absolute paths
    pc,       \* "idle" | "streaming" | "done"
    req,      \* the call or request being handled
    res,      \* the HTTP response being built, or the value a call returned
    fsLog,    \* filesystem operations performed for the current request
    netLog    \* upstream fetches / object-store commands issued for it

vars == <<env, disk, pc, req, res, fsLog, netLog>>

----------------------------------------------------------------------------
(* JavaScript values *)

Undefined == <<"undefined">>
Null == <<"null">>

\* !v for a value that is a string, undefined or null
Falsy(v) == v = Undefined \/ v = Null \/ v = <<>>
Truthy(v) == ~Falsy(v)

----------------------------------------------------------------------------
(* String primitives (String.prototype) *)

StartsWith(s, p) == Len(p) <= Len(s) /\ SubSeq(s, 1, Len(p)) = p
EndsWith(s, p) == Len(p) <= Len(s) /\ SubSeq(s, Len(s) - Len(p) + 1, Len(s)) = p
\* s.slice(n)
SliceFrom(s, n) == SubSeq(s, n + 1, Len(s))
\* s.slice(0, -1)
DropLast(s) == SubSeq(s, 1, Len(s) - 1)

\* s.split(ch)
RECURSIVE Split(_, _)
Split(s, ch) ==
    IF \A i \in 1..Len(s) : s[i] # ch
    THEN <<s>>
    ELSE LET i == CHOOSE k \in 1..Len(s) :
                      s[k] = ch /\ \A j \in 1..(k - 1) : s[j] # ch
         IN  <<SubSeq(s, 1, i - 1)>> \o Split(SubSeq(s, i + 1, Len(s)), ch)

\* parts.join(sep)
RECURSIVE JoinWith(_, _)
JoinWith(parts, sep) ==
    IF parts = <<>> THEN <<>>
    ELSE IF Len(parts) = 1 THEN parts[1]
    ELSE parts[1] \o sep \o JoinWith(Tail(parts), sep)

NonEmptyStr(p) == p # <<>>
\* parts.filter(Boolean) on an array of strings
FilterBoolean(parts) == SelectSeq(parts, NonEmptyStr)

\* s.trim()
IsSpace(c) == c = " "
RECURSIVE TrimStart(_)
TrimStart(s) == IF s # <<>> /\ IsSpace(s[1]) THEN TrimStart(Tail(s)) ELSE s
RECURSIVE TrimEnd(_)
TrimEnd(s) == IF s # <<>> /\ IsSpace(s[Len(s)]) THEN TrimEnd(DropLast(s)) ELSE s
Trim(s) == TrimEnd(TrimStart(s))

\* s.replace(/^\/+/, "") and s.replace(/\/+$/, "")
RECURSIVE StripLeadingSlashes(_)
StripLeadingSlashes(s) ==
    IF s # <<>> /\ s[1] = "/" THEN StripLeadingSlashes(Tail(s)) ELSE s
RECURSIVE StripTrailingSlashes(_)
StripTrailingSlashes(s) ==
    IF s # <<>> /\ s[Len(s)] = "/" THEN StripTrailingSlashes(DropLast(s)) ELSE s

\* s.toLowerCase(), on the letters the environment values use
LowerChar(c) ==
    CASE c = "F" -> "f"
      [] c = "S" -> "s"
      [] OTHER -> c
ToLowerCase(s) == [i \in 1..Len(s) |-> LowerChar(s[i])]

----------------------------------------------------------------------------
(* node:path (posix) *)

Sep == <<"/">>
\* process.cwd(): always absolute
Cwd == <<"/", "w">>

\* the right-to-left loop of path.resolve: prepend arguments until one is absolute
RECURSIVE ResolveLoop(_, _, _)
ResolveLoop(all, i, acc) ==
    IF i = 0 THEN acc
    ELSE IF all[i] = <<>> THEN ResolveLoop(all, i - 1, acc)
    ELSE LET acc2 == all[i] \o Sep \o acc
         IN  IF all[i][1] = "/" THEN acc2 ELSE ResolveLoop(all, i - 1, acc2)

\* normalizeString(path, allowAboveRoot = false): drop "" and ".", pop on ".."
RECURSIVE NormalizeParts(_, _)
NormalizeParts(parts, out) ==
    IF parts = <<>> THEN out
    ELSE LET p == Head(parts)
         IN  IF p = <<>> \/ p = <<".">>
             THEN NormalizeParts(Tail(parts), out)
             ELSE IF p = <<".", ".">>
             THEN NormalizeParts(Tail(parts),
                                 IF out = <<>> THEN out ELSE DropLast(out))
             ELSE NormalizeParts(Tail(parts), Append(out, p))

\* path.resolve(...args)
PathResolve(args) ==
    Sep \o JoinWith(NormalizeParts(Split(ResolveLoop(<<Cwd>> \o args, Len(args) + 1, <<>>), "/"),
                                   <<>>),
                    Sep)

----------------------------------------------------------------------------
(* String literals of the code and of the modelled environment *)

S_fs == <<"f", "s">>
S_s3 == <<"s", "3">>
S_FS == <<"F", "S">>
S_gcs == <<"g", "c", "s">>
S_uploads == <<"u", "p", "l", "o", "a", "d", "s">>
S_slashUploads == Sep \o S_uploads
S_http == <<"h", "t", "t", "p">>
S_https == <<"h", "t", "t", "p", "s">>
S_ftp == <<"f", "t", "p">>
S_colon == <<":">>
S_null == <<"n", "u", "l", "l">>

LowerLetters ==
    {"a", "b", "c", "d", "e", "f", "g", "h", "i", "j", "k", "l", "m",
     "n", "o", "p", "q", "r", "s", "t", "u", "v", "w", "x", "y", "z"}
UpperLetters ==
    {"A", "B", "C", "D", "E", "F", "G", "H", "I", "J", "K", "L", "M",
     "N", "O", "P", "Q", "R", "S", "T", "U", "V", "W", "X", "Y", "Z"}
Digits == {"0", "1", "2", "3", "4", "5", "6", "7", "8", "9"}

\* /^[a-zA-Z0-9._-]+$/.test(bucket)
BucketRegexTest(bucket) ==
    /\ bucket # <<>>
    /\ \A i \in 1..Len(bucket) :
           bucket[i] \in LowerLetters \cup UpperLetters \cup Digits \cup {".", "_", "-"}

\* the key check without its "." and ".." cases
HasBadKeyPart_OnlyEmpty(keyParts) ==
    \E i \in 1..Len(keyParts) : keyParts[i] = <<>>

\* keyParts.some((p) => p.length === 0 || p === "." || p === "..")
HasBadKeyPart(keyParts) ==
    \E i \in 1..Len(keyParts) :
        keyParts[i] = <<>> \/ keyParts[i] = <<".">> \/ keyParts[i] = <<".", ".">>

\* path.resolve(storageDir, "uploads")
UploadsRoot(storageDir) == PathResolve(<<storageDir, S_uploads>>)

\* filePath.startsWith(`${uploadsRoot}${path.sep}`)
InsideRoot(filePath, uploadsRoot) == StartsWith(filePath, uploadsRoot \o Sep)

----------------------------------------------------------------------------
(* The filesystem as the handlers see it *)

\* a path is a directory when some existing file lies below it
IsDirectory(p) == p = Sep \/ \E f \in disk : StartsWith(f, p \o Sep)

\* what fs.stat / fs.unlink can meet at a path: any call may also fail with
\* an error other than ENOENT (EACCES, EIO, ...)
StatOutcomes(p) ==
    (IF p \in disk THEN {"file"} ELSE IF IsDirectory(p) THEN {"dir"} ELSE {"ENOENT"})
        \cup {"EACCES"}

UnlinkOutcomes(p) ==
    IF p \in disk THEN {"removed", "EACCES"}
    ELSE IF IsDirectory(p) THEN {"EISDIR"}
    ELSE {"ENOENT", "EACCES"}

\* one filesystem call: the operation, its path and what it met
FsOp(op, p, result) == [op |-> op, path |-> p, result |-> result]

----------------------------------------------------------------------------
(* Responses *)

NoReq == [op |-> "none"]
NoRes == [kind |-> "none"]

\* res.status(code).json(body)
JsonResponse(code, headers) ==
    [kind |-> "http", status |-> code, body |-> "json", headers |-> headers,
     headersSent |-> TRUE, ended |-> TRUE, jsonWrites |-> 1, thrown |-> FALSE]

\* res.status(200).end()
EmptyResponse(code, headers) ==
    [kind |-> "http", status |-> code, body |-> "empty", headers |-> headers,
     headersSent |-> TRUE, ended |-> TRUE, jsonWrites |-> 0, thrown |-> FALSE]

\* stream.pipe(res) / pipeline(stream, res) has been started: nothing sent yet
StreamingResponse(headers) ==
    [kind |-> "http", status |-> 200, body |-> "bytes", headers |-> headers,
     headersSent |-> FALSE, ended |-> FALSE, jsonWrites |-> 0, thrown |-> FALSE]

\* an exception escaped the handler: it wrote nothing itself
ThrownResponse(headers) ==
    [kind |-> "http", status |-> 0, body |-> "none", headers |-> headers,
     headersSent |-> FALSE, ended |-> FALSE, jsonWrites |-> 0, thrown |-> TRUE]

\* the value a facade call returned, or the error it threw
Returned(v) == [kind |-> "return", value |-> v]
Threw(e) == [kind |-> "throw", error |-> e]

----------------------------------------------------------------------------
(* Driver resolution: the facade's, the upload file server's, the          *)
(* attachment downloader's                                                 *)

\* getStorageDriver with the two fallbacks in the handlers' order: the
\* directory before the endpoint
getStorageDriver_DirFirst ==
    LET raw == env.KAN_STORAGE_DRIVER
        explicit == IF raw = Undefined THEN Undefined ELSE ToLowerCase(raw)
    IN  IF explicit = S_fs \/ explicit = S_s3 THEN explicit
        ELSE IF Truthy(env.KAN_STORAGE_DIR) THEN S_fs
        ELSE S_s3

\* s3.ts getStorageDriver()
getStorageDriver ==
    LET raw == env.KAN_STORAGE_DRIVER
        explicit == IF raw = Undefined THEN Undefined ELSE ToLowerCase(raw)
    IN  IF explicit = S_fs \/ explicit = S_s3 THEN explicit
        ELSE IF Truthy(env.S3_ENDPOINT) THEN S_s3
        ELSE IF Truthy(env.KAN_STORAGE_DIR) THEN S_fs
        ELSE S_s3

\* the upload file server's `driver`:
\* configuredDriver ?? (storageDir ? "fs" : s3Endpoint ? "s3" : "s3")
uploadDriver ==
    IF env.KAN_STORAGE_DRIVER # Undefined THEN env.KAN_STORAGE_DRIVER
    ELSE IF Truthy(env.KAN_STORAGE_DIR) THEN S_fs
    ELSE IF Truthy(env.S3_ENDPOINT) THEN S_s3
    ELSE S_s3

\* the attachment downloader's getStorageDriver(): the same expression
downloadGetStorageDriver ==
    IF env.KAN_STORAGE_DRIVER # Undefined THEN env.KAN_STORAGE_DRIVER
    ELSE IF Truthy(env.KAN_STORAGE_DIR) THEN S_fs
    ELSE IF Truthy(env.S3_ENDPOINT) THEN S_s3
    ELSE S_s3

----------------------------------------------------------------------------
(* Upload file server: GET|HEAD /api/uploads/<bucket>/<key...> *)

\* Array.isArray(pathParts) ? pathParts : typeof pathParts === "string" ? [pathParts] : []
QueryParts(q) ==
    IF q.type = "array" THEN q.arr
    ELSE IF q.type = "string" THEN <<q.str>>
    ELSE <<>>

BucketOf(parts) == IF parts = <<>> THEN Undefined ELSE parts[1]
KeyPartsOf(parts) == IF parts = <<>> THEN <<>> ELSE Tail(parts)

Rejected(code) == [ok |-> FALSE, status |-> code]
Accepted(filePath) == [ok |-> TRUE, filePath |-> filePath]

\* the upload file server's bucket / key validation and path resolution
UploadResolve(storageDir, parts) ==
    LET bucket == BucketOf(parts)
        keyParts == KeyPartsOf(parts)
    IN  IF Falsy(bucket) \/ keyParts = <<>> THEN Rejected(400)
        ELSE IF ~BucketRegexTest(bucket) THEN Rejected(400)
        ELSE IF HasBadKeyPart(keyParts) THEN Rejected(400)
        ELSE LET uploadsRoot == UploadsRoot(storageDir)
                 filePath == PathResolve(<<uploadsRoot, bucket>> \o keyParts)
             IN  IF ~InsideRoot(filePath, uploadsRoot) THEN Rejected(400)
                 ELSE Accepted(filePath)

\* the upload handler without its `if (!storageDir)` answer
UploadValidate_NoDirCheck(method, parts) ==
    IF method # "GET" /\ method # "HEAD" THEN Rejected(405)
    ELSE IF uploadDriver # S_fs THEN Rejected(404)
    ELSE UploadResolve(env.KAN_STORAGE_DIR, parts)

\* everything the upload handler decides before it touches the filesystem
UploadValidate(method, parts) ==
    IF method # "GET" /\ method # "HEAD" THEN Rejected(405)
    ELSE IF uploadDriver # S_fs THEN Rejected(404)
    ELSE IF Falsy(env.KAN_STORAGE_DIR) THEN Rejected(500)
    ELSE UploadResolve(env.KAN_STORAGE_DIR, parts)

UploadHeaders == {"Content-Type", "Content-Length", "Cache-Control"}

\* what the handler does with the outcome of stat(filePath)
UploadServe(method, filePath, st) ==
    IF st = "ENOENT" \/ st = "dir"
    THEN [res |-> JsonResponse(404, {}), fsLog |-> <<FsOp("stat", filePath, st)>>, pc |-> "done"]
    ELSE IF st = "EACCES"
    THEN [res |-> JsonResponse(500, {}), fsLog |-> <<FsOp("stat", filePath, st)>>, pc |-> "done"]
    ELSE IF method = "HEAD"
    THEN [res |-> EmptyResponse(200, UploadHeaders),
          fsLog |-> <<FsOp("stat", filePath, st)>>, pc |-> "done"]
    ELSE [res |-> StreamingResponse(UploadHeaders),
          fsLog |-> <<FsOp("stat", filePath, st), FsOp("createReadStream", filePath, "opened")>>,
          pc |-> "streaming"]

UploadHandler(method, q) ==
    LET parts == QueryParts(q)
        v == UploadValidate(method, parts)
    IN  /\ pc = "idle"
        /\ req' = [op |-> "upload", method |-> method, parts |-> parts]
        /\ netLog' = <<>>
        /\ UNCHANGED <<env, disk>>
        /\ IF ~v.ok
           THEN /\ res' = JsonResponse(v.status, {})
                /\ fsLog' = <<>>
                /\ pc' = "done"
           ELSE \E st \in StatOutcomes(v.filePath) :
                  LET r == UploadServe(method, v.filePath, st)
                  IN  res' = r.res /\ fsLog' = r.fsLog /\ pc' = r.pc

----------------------------------------------------------------------------
(* new URL(s), on the URLs of the model: <scheme>:[//<host>][/<path>]      *)

IndexOf(s, ch) ==
    IF \E i \in 1..Len(s) : s[i] = ch
    THEN CHOOSE i \in 1..Len(s) : s[i] = ch /\ \A j \in 1..(i - 1) : s[j] # ch
    ELSE 0

\* a path segment the URL parser treats as "." or ".." (percent-encoded dots too)
IsSingleDotSeg(p) == p \in {<<".">>, <<"%", "2", "e">>, <<"%", "2", "E">>}
IsDoubleDotSeg(p) ==
    \E a, b \in {<<".">>, <<"%", "2", "e">>, <<"%", "2", "E">>} : p = a \o b

\* the URL parser's path state: dot segments are resolved, empty ones kept
RECURSIVE UrlPathSegs(_, _)
UrlPathSegs(segs, out) ==
    IF segs = <<>> THEN out
    ELSE LET p == Head(segs)
             last == Len(segs) = 1
         IN  IF IsDoubleDotSeg(p)
             THEN LET popped == IF out = <<>> THEN out ELSE DropLast(out)
                  IN  UrlPathSegs(Tail(segs),
                                  IF last THEN Append(popped, <<>>) ELSE popped)
             ELSE IF IsSingleDotSeg(p)
             THEN UrlPathSegs(Tail(segs), IF last THEN Append(out, <<>>) ELSE out)
             ELSE UrlPathSegs(Tail(segs), Append(out, p))

UrlPathname(rawPath) ==
    IF rawPath = <<>> THEN Sep
    ELSE Sep \o JoinWith(UrlPathSegs(Tail(Split(rawPath, "/")), <<>>), Sep)

InvalidUrl == [ok |-> FALSE]

\* new URL(s): InvalidUrl stands for the TypeError
ParseUrl(s) ==
    LET c == IndexOf(s, ":")
    IN  IF c <= 1 \/ \E i \in 1..(c - 1) : s[i] \notin LowerLetters
        THEN InvalidUrl
        ELSE LET scheme == SubSeq(s, 1, c - 1)
                 rest == SliceFrom(s, c)
             IN  IF StartsWith(rest, <<"/", "/">>)
                 THEN LET auth == SliceFrom(rest, 2)
                          slash == IndexOf(auth, "/")
                          host == IF slash = 0 THEN auth ELSE SubSeq(auth, 1, slash - 1)
                          rawPath == IF slash = 0 THEN <<>> ELSE SliceFrom(auth, slash - 1)
                      IN  IF host = <<>> THEN InvalidUrl
                          ELSE [ok |-> TRUE,
                                protocol |-> scheme \o S_colon,
                                origin |-> scheme \o S_colon \o <<"/", "/">> \o host,
                                pathname |-> UrlPathname(rawPath)]
                 ELSE [ok |-> TRUE,
                       protocol |-> scheme \o S_colon,
                       origin |-> S_null,
                       pathname |-> rest]

\* decodeURIComponent(p), on the escapes of the modelled alphabet; any other
\* use of "%" is malformed and throws URIError
KnownEscape(a, b) == a = "2" /\ b \in {"F", "f", "E", "e"}
MalformedEscape(p) ==
    \E i \in 1..Len(p) :
        p[i] = "%" /\ (i + 2 > Len(p) \/ ~KnownEscape(p[i + 1], p[i + 2]))

RECURSIVE DecodeURIComponent(_)
DecodeURIComponent(p) ==
    IF p = <<>> THEN <<>>
    ELSE IF p[1] = "%"
    THEN <<IF p[3] \in {"F", "f"} THEN "/" ELSE ".">> \o DecodeURIComponent(SliceFrom(p, 3))
    ELSE <<p[1]>> \o DecodeURIComponent(Tail(p))

----------------------------------------------------------------------------
(* Attachment downloader: GET /api/download/attachment?url=&filename= *)

\* the downloader's normalizeUploadsPath(pathname)
downloadNormalizeUploadsPath(pathname) ==
    LET trimmed == Trim(IF pathname = Undefined THEN <<>> ELSE pathname)
        value == IF Len(trimmed) > 0 THEN trimmed ELSE S_slashUploads
    IN  IF value = Sep THEN <<>>
        ELSE LET withLeadingSlash == IF StartsWith(value, Sep) THEN value ELSE Sep \o value
             IN  IF EndsWith(withLeadingSlash, Sep)
                 THEN DropLast(withLeadingSlash)
                 ELSE withLeadingSlash

\* getAllowedOrigins(): the origins of the two configured URLs that parse
getAllowedOrigins ==
    LET candidates == {c \in {env.NEXT_PUBLIC_STORAGE_URL, env.NEXT_PUBLIC_BASE_URL} :
                          c # Undefined /\ Len(c) > 0}
    IN  {ParseUrl(c).origin : c \in {d \in candidates : ParseUrl(d).ok}}

AcceptedUrl(u) == [ok |-> TRUE, url |-> u]

\* method, url parameter, protocol and origin checks
AttachmentValidate(method, urlq) ==
    IF method # "GET" THEN Rejected(405)
    ELSE IF urlq.type # "string" \/ urlq.str = <<>> THEN Rejected(400)
    ELSE LET parsedUrl == ParseUrl(urlq.str)
         IN  IF ~parsedUrl.ok THEN Rejected(400)
             ELSE IF parsedUrl.protocol # S_http \o S_colon
                     /\ parsedUrl.protocol # S_https \o S_colon
             THEN Rejected(400)
             ELSE IF Cardinality(getAllowedOrigins) > 0
                     /\ parsedUrl.origin \notin getAllowedOrigins
             THEN Rejected(400)
             ELSE AcceptedUrl(parsedUrl)

\* the downloader's bucket / key validation and path resolution
AttachmentResolve(storageDir, parts) ==
    LET bucket == BucketOf(parts)
        keyParts == KeyPartsOf(parts)
    IN  IF Falsy(bucket) \/ keyParts = <<>> THEN Rejected(400)
        ELSE IF ~BucketRegexTest(bucket) THEN Rejected(400)
        ELSE IF HasBadKeyPart(keyParts) THEN Rejected(400)
        ELSE LET uploadsRoot == UploadsRoot(storageDir)
                 filePath == PathResolve(<<uploadsRoot, bucket>> \o keyParts)
             IN  IF ~InsideRoot(filePath, uploadsRoot) THEN Rejected(400)
                 ELSE Accepted(filePath)

\* remainder.split("/").filter(Boolean)
RemainderParts(pathname, uploadsPath) ==
    FilterBoolean(Split(SliceFrom(pathname, Len(uploadsPath) + 1), "/"))

DecodeAll(parts) == [i \in 1..Len(parts) |-> DecodeURIComponent(parts[i])]

\* the filesystem branch: which way the request goes once the url is accepted
\*   "reject"   answered with a status, nothing touched
\*   "throw"    decodeURIComponent threw, outside every try block
\*   "local"    served from disk at filePath
\*   "fallback" handed to the upstream fetch
AttachmentRoute(parsedUrl) ==
    IF downloadGetStorageDriver # S_fs THEN [way |-> "fallback"]
    ELSE IF Falsy(env.KAN_STORAGE_DIR) THEN [way |-> "reject", status |-> 500]
    ELSE LET uploadsPath == downloadNormalizeUploadsPath(env.NEXT_PUBLIC_UPLOADS_PATH)
         IN  IF uploadsPath = <<>> \/ ~StartsWith(parsedUrl.pathname, uploadsPath \o Sep)
             THEN [way |-> "fallback"]
             ELSE LET raw == RemainderParts(parsedUrl.pathname, uploadsPath)
                  IN  IF \E i \in 1..Len(raw) : MalformedEscape(raw[i])
                      THEN [way |-> "throw"]
                      ELSE LET r == AttachmentResolve(env.KAN_STORAGE_DIR, DecodeAll(raw))
                           IN  IF r.ok
                               THEN [way |-> "local", filePath |-> r.filePath]
                               ELSE [way |-> "reject", status |-> r.status]

NetOp(op, target) == [op |-> op, target |-> target]

FetchOutcomes == {"reject", "status404", "status503", "nobody", "body"}

\* the local branch, given the outcome of stat(filePath)
AttachmentServe(filePath, st) ==
    IF st = "ENOENT" \/ st = "dir"
    THEN [res |-> JsonResponse(404, {"Content-Disposition"}),
          fsLog |-> <<FsOp("stat", filePath, st)>>, pc |-> "done"]
    ELSE IF st = "EACCES"
    THEN [res |-> JsonResponse(500, {"Content-Disposition"}),
          fsLog |-> <<FsOp("stat", filePath, st)>>, pc |-> "done"]
    ELSE [res |-> StreamingResponse({"Content-Disposition", "Content-Type", "Content-Length"}),
          fsLog |-> <<FsOp("stat", filePath, st), FsOp("createReadStream", filePath, "opened")>>,
          pc |-> "streaming"]

\* the fallback, given the outcome of fetch(parsedUrl, { redirect: "follow" })
AttachmentProxy(o) ==
    IF o = "reject"
    THEN [res |-> JsonResponse(500, {"Content-Disposition"}), pc |-> "done"]
    ELSE IF o = "status404"
    THEN [res |-> JsonResponse(404, {"Content-Disposition"}), pc |-> "done"]
    ELSE IF o = "status503"
    THEN [res |-> JsonResponse(503, {"Content-Disposition"}), pc |-> "done"]
    ELSE IF o = "nobody"
    THEN [res |-> JsonResponse(502, {"Content-Disposition", "Content-Type"}), pc |-> "done"]
    ELSE [res |-> StreamingResponse({"Content-Disposition", "Content-Type"}),
          pc |-> "streaming"]

AttachmentHandler(method, urlq) ==
    LET v == AttachmentValidate(method, urlq)
        route == AttachmentRoute(v.url)
    IN  /\ pc = "idle"
        /\ req' = [op |-> "attachment", method |-> method, url |-> urlq]
        /\ UNCHANGED <<env, disk>>
        /\ IF ~v.ok
           THEN /\ res' = JsonResponse(v.status, {})
                /\ fsLog' = <<>> /\ netLog' = <<>> /\ pc' = "done"
           ELSE IF route.way = "reject"
           THEN /\ res' = JsonResponse(route.status, {"Content-Disposition"})
                /\ fsLog' = <<>> /\ netLog' = <<>> /\ pc' = "done"
           ELSE IF route.way = "throw"
           THEN /\ res' = ThrownResponse({"Content-Disposition"})
                /\ fsLog' = <<>> /\ netLog' = <<>> /\ pc' = "done"
           ELSE IF route.way = "local"
           THEN /\ netLog' = <<>>
                /\ \E st \in StatOutcomes(route.filePath) :
                     LET r == AttachmentServe(route.filePath, st)
                     IN  res' = r.res /\ fsLog' = r.fsLog /\ pc' = r.pc
           ELSE /\ fsLog' = <<>>
                /\ netLog' = <<NetOp("fetch", v.url)>>
                /\ \E o \in FetchOutcomes :
                     LET r == AttachmentProxy(o)
                     IN  res' = r.res /\ pc' = r.pc

----------------------------------------------------------------------------
(* Streaming a response body: stream.pipe(res) and pipeline(stream, res) *)

\* the first chunk goes out: the headers are sent with it
StreamData ==
    /\ pc = "streaming"
    /\ ~res.headersSent
    /\ res' = [res EXCEPT !.headersSent = TRUE]
    /\ UNCHANGED <<env, disk, pc, req, fsLog, netLog>>

\* the source ends: the response is completed
StreamEnd ==
    /\ pc = "streaming"
    /\ res' = [res EXCEPT !.headersSent = TRUE, !.ended = TRUE]
    /\ pc' = "done"
    /\ UNCHANGED <<env, disk, req, fsLog, netLog>>

\* the source fails.  The upload file server's "error" listener looks at
\* res.headersSent; the downloader's catch blocks write a status and a JSON
\* body whatever has been sent.
StreamError ==
    /\ pc = "streaming"
    /\ IF req.op = "upload"
       THEN IF ~res.headersSent
            THEN res' = [res EXCEPT !.status = 500, !.body = "json", !.headersSent = TRUE,
                                    !.ended = TRUE, !.jsonWrites = @ + 1]
            ELSE res' = [res EXCEPT !.ended = TRUE]
       ELSE res' = [res EXCEPT !.status = IF res.headersSent THEN @ ELSE 500,
                               !.body = IF res.headersSent THEN @ ELSE "json",
                               !.headersSent = TRUE, !.ended = TRUE,
                               !.jsonWrites = @ + 1,
                               !.thrown = res.headersSent]
    /\ pc' = "done"
    /\ UNCHANGED <<env, disk, req, fsLog, netLog>>

\* the request is over; the process waits for the next one
Finish ==
    /\ pc = "done"
    /\ pc' = "idle"
    /\ req' = NoReq
    /\ res' = NoRes
    /\ fsLog' = <<>>
    /\ netLog' = <<>>
    /\ UNCHANGED <<env, disk>>

----------------------------------------------------------------------------
(* Storage facade: deleteObject(bucket, key) *)

\* key.split("/").filter(Boolean)
KeySegments(key) == FilterBoolean(Split(key, "/"))

\* the candidate path deleteObject resolves
DeleteCandidate(storageDir, bucket, key) ==
    PathResolve(<<UploadsRoot(storageDir), bucket>> \o KeySegments(key))

\* the guard of deleteObject: TRUE when it throws "Invalid storage key"
DeleteRejects(candidate, uploadsRoot) ==
    ~StartsWith(candidate, uploadsRoot \o Sep) /\ candidate # uploadsRoot

\* the catch block without its ENOENT case: every unlink failure is rethrown
DeleteResult_RethrowAll(o) ==
    IF o = "removed" THEN Returned(Undefined) ELSE Threw(o)

\* try { await unlink(candidate) } catch: ENOENT is swallowed, the rest rethrown
DeleteResult(o) ==
    IF o = "removed" \/ o = "ENOENT" THEN Returned(Undefined) ELSE Threw(o)

DeleteObject(bucket, key) ==
    /\ pc = "idle"
    /\ req' = [op |-> "deleteObject", bucket |-> bucket, key |-> key]
    /\ pc' = "done"
    /\ UNCHANGED env
    /\ IF getStorageDriver = S_fs
       THEN /\ netLog' = <<>>
            /\ IF Falsy(env.KAN_STORAGE_DIR)
               THEN /\ res' = Threw("KAN_STORAGE_DIR is required for fs storage")
                    /\ fsLog' = <<>>
                    /\ UNCHANGED disk
               ELSE LET uploadsRoot == UploadsRoot(env.KAN_STORAGE_DIR)
                        candidate == DeleteCandidate(env.KAN_STORAGE_DIR, bucket, key)
                    IN  IF DeleteRejects(candidate, uploadsRoot)
                        THEN /\ res' = Threw("Invalid storage key")
                             /\ fsLog' = <<>>
                             /\ UNCHANGED disk
                        ELSE \E o \in UnlinkOutcomes(candidate) :
                                  /\ fsLog' = <<FsOp("unlink", candidate, o)>>
                                  /\ disk' = IF o = "removed" THEN disk \ {candidate} ELSE disk
                                  /\ res' = DeleteResult(o)
       ELSE /\ fsLog' = <<>>
            /\ UNCHANGED disk
            /\ netLog' = <<NetOp("DeleteObjectCommand", <<bucket, key>>)>>
            /\ \E o \in {"ok", "error"} :
                 res' = IF o = "ok" THEN Returned(Undefined) ELSE Threw("S3ServiceException")

----------------------------------------------------------------------------
(* The environment and the inputs of the file-serving specification *)

MaxKeyParts == 2

DefaultEnv ==
    [KAN_STORAGE_DRIVER |-> Undefined,
     S3_ENDPOINT |-> Undefined,
     KAN_STORAGE_DIR |-> Undefined,
     S3_ACCESS_KEY_ID |-> Undefined,
     S3_SECRET_ACCESS_KEY |-> Undefined,
     NEXT_PUBLIC_STORAGE_URL |-> Undefined,
     NEXT_PUBLIC_BASE_URL |-> Undefined,
     NEXT_PUBLIC_UPLOADS_PATH |-> Undefined,
     NEXT_PUBLIC_AVATAR_BUCKET_NAME |-> Undefined,
     NEXT_PUBLIC_ATTACHMENTS_BUCKET_NAME |-> Undefined,
     NEXT_PUBLIC_KAN_ENV |-> Undefined,
     KAN_ADMIN_API_KEY |-> Undefined]

StorageDir == <<"/", "d">>
S3Endpoint == <<"e">>
StorageOrigin == S_http \o <<":", "/", "/", "h">>
BaseOrigin == S_http \o <<":", "/", "/", "b">>
OtherOrigin == S_http \o <<":", "/", "/", "x">>

\* the file every initial disk holds: <uploads root>/a/a
StoredFile == UploadsRoot(StorageDir) \o <<"/", "a", "/", "a">>

\* NEXT_PUBLIC_STORAGE_URL, NEXT_PUBLIC_BASE_URL, NEXT_PUBLIC_UPLOADS_PATH
PublicConfigs ==
    {<<Undefined, Undefined, Undefined>>,
     <<StorageOrigin, Undefined, Undefined>>,
     <<StorageOrigin, BaseOrigin, Undefined>>,
     <<<<"h">>, Undefined, Undefined>>,
     <<StorageOrigin, Undefined, Sep>>}

\* KAN_STORAGE_DRIVER, KAN_STORAGE_DIR, S3_ENDPOINT: every combination in
\* which the third still matters to one of the three resolutions
DriverConfigs ==
    {<<Undefined, Undefined, Undefined>>,
     <<Undefined, Undefined, S3Endpoint>>,
     <<Undefined, StorageDir, Undefined>>,
     <<Undefined, StorageDir, S3Endpoint>>,
     <<S_fs, Undefined, Undefined>>,
     <<S_fs, StorageDir, Undefined>>,
     <<S_s3, Undefined, Undefined>>,
     <<S_s3, StorageDir, Undefined>>,
     <<S_FS, Undefined, Undefined>>}

ServeEnv(d, c) ==
    [DefaultEnv EXCEPT !.KAN_STORAGE_DRIVER = d[1],
                       !.KAN_STORAGE_DIR = d[2],
                       !.S3_ENDPOINT = d[3],
                       !.NEXT_PUBLIC_STORAGE_URL = c[1],
                       !.NEXT_PUBLIC_BASE_URL = c[2],
                       !.NEXT_PUBLIC_UPLOADS_PATH = c[3]]

\* every driver configuration with the storage URL set, and every public
\* configuration under three of them: s3 by default, fs with and without
\* its directory
ServeEnvs ==
    {ServeEnv(d, <<StorageOrigin, Undefined, Undefined>>) : d \in DriverConfigs}
        \cup {ServeEnv(d, c) :
                d \in {<<Undefined, Undefined, Undefined>>,
                       <<S_fs, StorageDir, Undefined>>,
                       <<S_fs, Undefined, Undefined>>},
                c \in PublicConfigs}

\* path segments as the router hands them over (already percent-decoded, so
\* a segment may hold a "/")
Segs ==
    {<<>>, <<".">>, <<".", ".">>, <<"a">>,
     <<".", ".", "/", ".", ".">>, S_uploads \o <<"a">>}

SeqsUpTo(S, n) == UNION {[1..k -> S] : k \in 0..n}

Buckets == {<<>>, <<"a">>, <<".", ".">>, <<"/", "e">>}

UploadQueries ==
    {[type |-> "array", arr |-> <<b>> \o k] : b \in Buckets, k \in SeqsUpTo(Segs, MaxKeyParts)}
        \cup {[type |-> "array", arr |-> <<>>],
              [type |-> "string", str |-> <<"a">>],
              [type |-> "undefined"]}

\* HEAD and the methods the server refuses, on a few paths only
UploadProbeQueries ==
    {[type |-> "array", arr |-> <<<<"a">>>> \o k] : k \in SeqsUpTo({<<"a">>, <<".", ".">>}, 1)}

UploadRequests ==
    ({"GET"} \X UploadQueries) \cup ({"HEAD", "POST"} \X UploadProbeQueries)

\* raw (percent-encoded) path segments of the url parameter
UrlSegs ==
    {<<"a">>, <<".", ".", "%", "2", "F", ".", ".">>, <<"%", "2", "F", "e">>, <<"%">>}

RECURSIVE UrlPath(_)
UrlPath(segs) == IF segs = <<>> THEN <<>> ELSE Sep \o Head(segs) \o UrlPath(Tail(segs))

AttachmentUrls ==
    {StorageOrigin \o S_slashUploads \o UrlPath(k) : k \in SeqsUpTo(UrlSegs, MaxKeyParts + 1)}
        \cup {o \o pa : o \in {StorageOrigin, OtherOrigin, BaseOrigin},
                        pa \in {<<>>, <<"/", "a">>, S_slashUploads \o <<"/", "a", "/", "a">>}}
        \cup {S_https \o <<":", "/", "/", "h">>,
              S_ftp \o <<":", "/", "/", "h">>,
              <<"m", ":", "a">>,
              <<"h">>,
              StorageOrigin \o S_slashUploads \o <<"/", "a", "/", "/", "a">>,
              StorageOrigin \o S_slashUploads \o <<"/", "a", "/", ".", ".", "/", "a", "/", "a">>}

AttachmentQueries ==
    {[type |-> "string", str |-> u] : u \in AttachmentUrls}
        \cup {[type |-> "string", str |-> <<>>],
              [type |-> "array", arr |-> <<StorageOrigin>>],
              [type |-> "undefined"]}

AttachmentRequests ==
    ({"GET"} \X AttachmentQueries)
        \cup {<<"POST", [type |-> "string", str |-> StorageOrigin]>>}

DeleteKeys == {JoinWith(k, Sep) : k \in SeqsUpTo(Segs, MaxKeyParts)}

----------------------------------------------------------------------------
(* The file-serving specification: upload file server, attachment         *)
(* downloader and the facade's deleteObject over one disk                 *)

Init ==
    /\ env \in ServeEnvs
    /\ disk = {StoredFile}
    /\ pc = "idle"
    /\ req = NoReq
    /\ res = NoRes
    /\ fsLog = <<>>
    /\ netLog = <<>>

Upload == \E r \in UploadRequests : UploadHandler(r[1], r[2])
Attachment == \E r \in AttachmentRequests : AttachmentHandler(r[1], r[2])
Delete == \E bucket \in Buckets, key \in DeleteKeys : DeleteObject(bucket, key)

Next ==
    \/ Upload
    \/ Attachment
    \/ Delete
    \/ StreamData
    \/ StreamEnd
    \/ StreamError
    \/ Finish

Spec == Init /\ [][Next]_vars

----------------------------------------------------------------------------
(* Claims about the file-serving specification *)

HttpDone == pc # "idle" /\ res.kind = "http"

\* p lies strictly below root: root, then a separator, then at least one more character
IsStrictDescendant(p, root) ==
    /\ Len(p) > Len(root) + 1
    /\ SubSeq(p, 1, Len(root)) = root
    /\ p[Len(root) + 1] = "/"

\* C1: every path that is stat'ed, streamed or unlinked for a request is a
\* strict descendant of path.resolve(KAN_STORAGE_DIR, "uploads"); a bucket/key
\* that resolves to the root itself or outside it causes no filesystem operation.
C1_PathsBelowUploadsRoot ==
    \A i \in 1..Len(fsLog) :
        /\ Truthy(env.KAN_STORAGE_DIR)
        /\ IsStrictDescendant(fsLog[i].path, UploadsRoot(env.KAN_STORAGE_DIR))

\* C1, for the two HTTP handlers alone
C1_HandlersBelowUploadsRoot ==
    req.op \in {"upload", "attachment"} => C1_PathsBelowUploadsRoot

\* a key segment that is ".." or empty
BadKeySegment(parts) ==
    \E i \in 2..Len(parts) : parts[i] = <<".", ".">> \/ parts[i] = <<>>

\* C2 as stated: a request to the upload file server whose key holds a ".."
\* or an empty segment is answered 400 and touches no file.
C2_BadKeyAlways400 ==
    (req.op = "upload" /\ BadKeySegment(req.parts)) =>
        (res.status = 400 /\ fsLog = <<>>)

\* C2 as amended: such a request never touches the filesystem; it is answered
\* 400 when the method is GET or HEAD, the server resolves the fs driver and
\* KAN_STORAGE_DIR is set, and 405, 404 or 500 when the method, the driver or
\* the directory check fails first.
C2_BadKeyNoFilesystem ==
    (req.op = "upload" /\ BadKeySegment(req.parts)) =>
        /\ fsLog = <<>>
        /\ pc = "done"
        /\ res.status =
             IF req.method \notin {"GET", "HEAD"} THEN 405
             ELSE IF uploadDriver # S_fs THEN 404
             ELSE IF Falsy(env.KAN_STORAGE_DIR) THEN 500
             ELSE 400

C2_Witness ==
    /\ req.op = "upload"
    /\ req.method = "GET"
    /\ req.parts = <<<<"a">>, <<"a">>, <<".", ".">>>>
    /\ res.kind = "http"
    /\ res.status = 400
    /\ fsLog = <<>>

HttpProtocols == {S_http \o S_colon, S_https \o S_colon}

\* C6: an upstream fetch is issued only for an http(s) URL whose origin is in
\* the allow-list derived from NEXT_PUBLIC_STORAGE_URL and NEXT_PUBLIC_BASE_URL;
\* a URL of any other origin is answered 400 and nothing is fetched.
C6_FetchOnlyAllowedOrigins ==
    /\ \A i \in 1..Len(netLog) :
           netLog[i].op = "fetch" =>
               /\ netLog[i].target.protocol \in HttpProtocols
               /\ netLog[i].target.origin \in getAllowedOrigins
    /\ (/\ req.op = "attachment"
        /\ req.method = "GET"
        /\ req.url.type = "string"
        /\ ParseUrl(req.url.str).ok
        /\ ParseUrl(req.url.str).protocol \in HttpProtocols
        /\ ParseUrl(req.url.str).origin \notin getAllowedOrigins)
       => (res.status = 400 /\ netLog = <<>>)

\* C7: under the fs driver deleteObject is a no-op on an absent object: when
\* unlink reports ENOENT the call returns normally and the disk is unchanged;
\* when unlink removes the file the call returns normally and the file is
\* gone, so that a second call meets the absent case; every other unlink
\* failure is rethrown and the disk is unchanged.
C7_DeleteNoOpIfAbsent ==
    [][(pc = "idle" /\ req'.op = "deleteObject" /\ fsLog' # <<>>) =>
           LET u == fsLog'[1]
           IN  /\ u.op = "unlink"
               /\ u.result = "ENOENT" =>
                      (res'.kind = "return" /\ disk' = disk /\ u.path \notin disk)
               /\ u.result = "removed" =>
                      (res'.kind = "return" /\ disk' = disk \ {u.path} /\ u.path \in disk)
               /\ u.result \notin {"ENOENT", "removed"} =>
                      (res' = Threw(u.result) /\ disk' = disk)]_vars

\* the second deleteObject of the stored file: the first removed it, this one
\* finds nothing and still returns normally
C7_Witness ==
    /\ req.op = "deleteObject"
    /\ req.bucket = <<"a">> /\ req.key = <<"a">>
    /\ fsLog = <<FsOp("unlink", StoredFile, "ENOENT")>>
    /\ res = Returned(Undefined)
    /\ disk = {}

\* C10: with the fs driver in effect for the handler and KAN_STORAGE_DIR not
\* set, a request that passes the handler's earlier checks (method; for the
\* downloader also the url, its protocol and its origin) is answered 500, and
\* neither the filesystem nor the upstream is touched.
C10_MissingStorageDirIs500 ==
    /\ (/\ req.op = "upload"
        /\ req.method \in {"GET", "HEAD"}
        /\ uploadDriver = S_fs
        /\ Falsy(env.KAN_STORAGE_DIR))
       => (res.status = 500 /\ pc = "done" /\ fsLog = <<>> /\ netLog = <<>>)
    /\ (/\ req.op = "attachment"
        /\ AttachmentValidate(req.method, req.url).ok
        /\ downloadGetStorageDriver = S_fs
        /\ Falsy(env.KAN_STORAGE_DIR))
       => (res.status = 500 /\ pc = "done" /\ fsLog = <<>> /\ netLog = <<>>)

C10_Witness ==
    /\ req.op = "attachment"
    /\ req.method = "GET"
    /\ req.url = [type |-> "string",
                  str |-> StorageOrigin \o S_slashUploads \o <<"/", "a", "/", "a">>]
    /\ env.KAN_STORAGE_DRIVER = S_fs
    /\ env.KAN_STORAGE_DIR = Undefined
    /\ env.NEXT_PUBLIC_STORAGE_URL = StorageOrigin
    /\ res.kind = "http"
    /\ res.status = 500

----------------------------------------------------------------------------
(* Storage facade: public URLs and presigned URLs (s3.ts) *)

\* normalizePublicPath(pathname, fallback)
normalizePublicPath(pathname, fallback) ==
    LET trimmed == Trim(IF pathname = Undefined THEN <<>> ELSE pathname)
        value == IF Len(trimmed) > 0 THEN trimmed ELSE fallback
    IN  IF value = Sep THEN <<>>
        ELSE LET withLeadingSlash == IF StartsWith(value, Sep) THEN value ELSE Sep \o value
             IN  IF EndsWith(withLeadingSlash, Sep)
                 THEN DropLast(withLeadingSlash)
                 ELSE withLeadingSlash

\* .map((p) => p.replace(/^\/+/, "").replace(/\/+$/, ""))
CleanPart(p) == StripTrailingSlashes(StripLeadingSlashes(p))

\* joinUrl(base, ...parts)
joinUrl(base, parts) ==
    LET trimmedBase == IF EndsWith(base, Sep) THEN DropLast(base) ELSE base
        kept == FilterBoolean(parts)
        cleaned == FilterBoolean([i \in 1..Len(kept) |-> CleanPart(kept[i])])
    IN  IF Len(cleaned) = 0 THEN trimmedBase
        ELSE trimmedBase \o Sep \o JoinWith(cleaned, Sep)

\* getUploadsPublicPath()
getUploadsPublicPath == normalizePublicPath(env.NEXT_PUBLIC_UPLOADS_PATH, S_slashUploads)

\* getPublicObjectUrl(bucket, key)
getPublicObjectUrl(bucket, key) ==
    LET storageUrl == env.NEXT_PUBLIC_STORAGE_URL
    IN  IF Falsy(storageUrl) THEN Null
        ELSE joinUrl(storageUrl, <<getUploadsPublicPath, bucket, key>>)

\* expiresIn = 3600
DefaultExpiresIn == 3600

\* getSignedUrl(client, command, { expiresIn }): the signed request, or the
\* signer's error (no usable credentials, ...)
Presigned(command, bucket, key, contentType, expiresIn) ==
    [signed |-> command, bucket |-> bucket, key |-> key,
     contentType |-> contentType, expiresIn |-> expiresIn]

GetSignedUrl(signer, command, bucket, key, contentType, expiresIn) ==
    IF signer = "ok"
    THEN Returned(Presigned(command, bucket, key, contentType, expiresIn))
    ELSE Threw("CredentialsProviderError")

\* generateUploadUrl without its fs guard: always presigns
generateUploadUrl_NoFsGuard(bucket, key, contentType, signer) ==
    GetSignedUrl(signer, "PutObjectCommand", bucket, key, contentType, DefaultExpiresIn)

\* generateUploadUrl(bucket, key, contentType)
generateUploadUrl(bucket, key, contentType, signer) ==
    IF getStorageDriver = S_fs
    THEN Threw("generateUploadUrl is not supported for fs storage")
    ELSE GetSignedUrl(signer, "PutObjectCommand", bucket, key, contentType, DefaultExpiresIn)

\* generateDownloadUrl(bucket, key, expiresIn)
generateDownloadUrl(bucket, key, expiresIn, signer) ==
    IF getStorageDriver = S_fs
    THEN LET url == getPublicObjectUrl(bucket, key)
         IN  IF Falsy(url) THEN Threw("Storage URL not configured") ELSE Returned(url)
    ELSE GetSignedUrl(signer, "GetObjectCommand", bucket, key, Undefined, expiresIn)

\* whether the call reaches the signer
Signs(result) == result.kind = "throw" => result.error = "CredentialsProviderError"

CallGetStorageDriver ==
    /\ pc = "idle"
    /\ req' = [op |-> "getStorageDriver"]
    /\ res' = Returned(getStorageDriver)
    /\ pc' = "done"
    /\ UNCHANGED <<env, disk, fsLog, netLog>>

GenerateUploadUrl(bucket, key, contentType, signer) ==
    LET r == generateUploadUrl(bucket, key, contentType, signer)
    IN  /\ pc = "idle"
        /\ req' = [op |-> "generateUploadUrl", bucket |-> bucket, key |-> key,
                   contentType |-> contentType, signer |-> signer]
        /\ res' = r
        /\ netLog' = IF Signs(r) THEN <<NetOp("getSignedUrl", "PutObjectCommand")>> ELSE <<>>
        /\ pc' = "done"
        /\ UNCHANGED <<env, disk, fsLog>>

GenerateDownloadUrl(bucket, key, signer) ==
    LET r == generateDownloadUrl(bucket, key, DefaultExpiresIn, signer)
    IN  /\ pc = "idle"
        /\ req' = [op |-> "generateDownloadUrl", bucket |-> bucket, key |-> key,
                   signer |-> signer]
        /\ res' = r
        /\ netLog' = IF getStorageDriver # S_fs
                     THEN <<NetOp("getSignedUrl", "GetObjectCommand")>>
                     ELSE <<>>
        /\ pc' = "done"
        /\ UNCHANGED <<env, disk, fsLog>>

\* expiresIn = 86400, // 24 hours
AvatarExpiresIn == 86400
AttachmentExpiresIn == 86400

S_httpSlashes == S_http \o <<":", "/", "/">>
S_httpsSlashes == S_https \o <<":", "/", "/">>

\* generateAvatarUrl with the presigning left outside any try block
generateAvatarUrl_NoCatch(imageKey, signer) ==
    IF Falsy(imageKey) THEN Returned(Null)
    ELSE IF StartsWith(imageKey, S_httpSlashes) \/ StartsWith(imageKey, S_httpsSlashes)
    THEN Returned(imageKey)
    ELSE LET bucket == env.NEXT_PUBLIC_AVATAR_BUCKET_NAME
         IN  IF Falsy(bucket) THEN Returned(Null)
             ELSE IF getStorageDriver = S_fs
             THEN Returned(getPublicObjectUrl(bucket, imageKey))
             ELSE generateDownloadUrl(bucket, imageKey, AvatarExpiresIn, signer)

\* generateAvatarUrl(imageKey)
generateAvatarUrl(imageKey, signer) ==
    IF Falsy(imageKey) THEN Returned(Null)
    ELSE IF StartsWith(imageKey, S_httpSlashes) \/ StartsWith(imageKey, S_httpsSlashes)
    THEN Returned(imageKey)
    ELSE LET bucket == env.NEXT_PUBLIC_AVATAR_BUCKET_NAME
         IN  IF Falsy(bucket) THEN Returned(Null)
             ELSE IF getStorageDriver = S_fs
             THEN Returned(getPublicObjectUrl(bucket, imageKey))
             ELSE LET r == generateDownloadUrl(bucket, imageKey, AvatarExpiresIn, signer)
                  IN  IF r.kind = "throw" THEN Returned(Null) ELSE r

\* generateAttachmentUrl(attachmentKey)
generateAttachmentUrl(attachmentKey, signer) ==
    IF Falsy(attachmentKey) THEN Returned(Null)
    ELSE LET bucket == env.NEXT_PUBLIC_ATTACHMENTS_BUCKET_NAME
         IN  IF Falsy(bucket) THEN Returned(Null)
             ELSE IF getStorageDriver = S_fs
             THEN Returned(getPublicObjectUrl(bucket, attachmentKey))
             ELSE LET r == generateDownloadUrl(bucket, attachmentKey,
                                               AttachmentExpiresIn, signer)
                  IN  IF r.kind = "throw" THEN Returned(Null) ELSE r

\* whether a call with this key reaches generateDownloadUrl's signer
ReachesSigner(key, bucket) ==
    /\ Truthy(key)
    /\ Truthy(bucket)
    /\ getStorageDriver # S_fs

GenerateAvatarUrl(imageKey, signer) ==
    /\ pc = "idle"
    /\ req' = [op |-> "generateAvatarUrl", key |-> imageKey, signer |-> signer]
    /\ res' = generateAvatarUrl(imageKey, signer)
    /\ netLog' = IF /\ ReachesSigner(imageKey, env.NEXT_PUBLIC_AVATAR_BUCKET_NAME)
                    /\ ~StartsWith(imageKey, S_httpSlashes)
                    /\ ~StartsWith(imageKey, S_httpsSlashes)
                 THEN <<NetOp("getSignedUrl", "GetObjectCommand")>>
                 ELSE <<>>
    /\ pc' = "done"
    /\ UNCHANGED <<env, disk, fsLog>>

GenerateAttachmentUrl(attachmentKey, signer) ==
    /\ pc = "idle"
    /\ req' = [op |-> "generateAttachmentUrl", key |-> attachmentKey, signer |-> signer]
    /\ res' = generateAttachmentUrl(attachmentKey, signer)
    /\ netLog' = IF ReachesSigner(attachmentKey, env.NEXT_PUBLIC_ATTACHMENTS_BUCKET_NAME)
                 THEN <<NetOp("getSignedUrl", "GetObjectCommand")>>
                 ELSE <<>>
    /\ pc' = "done"
    /\ UNCHANGED <<env, disk, fsLog>>

----------------------------------------------------------------------------
(* The facade specification: driver selection and URL generation *)

MaxSlashes == 2

Slashes(n) == [i \in 1..n |-> "/"]

\* a value with up to MaxSlashes slashes before and after it
Slashed(v) == {Slashes(i) \o v \o Slashes(j) : i, j \in 0..MaxSlashes}

DriverValues == {Undefined, <<>>, S_fs, S_s3, S_FS, S_gcs}
EndpointValues == {Undefined, <<>>, S3Endpoint}
StorageDirValues == {Undefined, <<>>, StorageDir}

StorageUrlValues ==
    {Undefined, <<>>} \cup {StorageOrigin \o Slashes(j) : j \in 0..MaxSlashes}

UploadsPathValues ==
    {Undefined, <<>>, <<" ">>, Sep, <<" ", "/", "u", " ">>} \cup Slashed(<<"u">>)

FacadeEnv(d, e, dir, url, up) ==
    [DefaultEnv EXCEPT !.KAN_STORAGE_DRIVER = d,
                       !.S3_ENDPOINT = e,
                       !.KAN_STORAGE_DIR = dir,
                       !.NEXT_PUBLIC_STORAGE_URL = url,
                       !.NEXT_PUBLIC_UPLOADS_PATH = up]

BucketNameValues == {Undefined, <<>>, <<"b">>}

BucketEnv(d, url, av, at) ==
    [DefaultEnv EXCEPT !.KAN_STORAGE_DRIVER = d,
                       !.KAN_STORAGE_DIR = StorageDir,
                       !.NEXT_PUBLIC_STORAGE_URL = url,
                       !.NEXT_PUBLIC_AVATAR_BUCKET_NAME = av,
                       !.NEXT_PUBLIC_ATTACHMENTS_BUCKET_NAME = at]

\* every combination of the three driver variables; under the fs driver
\* every combination of the two public URL variables; under either driver
\* every combination of the two bucket names
FacadeEnvs ==
    {FacadeEnv(d, e, dir, StorageOrigin, Undefined) :
        d \in DriverValues, e \in EndpointValues, dir \in StorageDirValues}
        \cup {FacadeEnv(S_fs, Undefined, StorageDir, url, up) :
                url \in StorageUrlValues, up \in UploadsPathValues}
        \cup {BucketEnv(d, url, av, at) :
                d \in {S_fs, S_s3}, url \in {Undefined, StorageOrigin},
                av \in BucketNameValues, at \in BucketNameValues}

\* the keys handed to generateAvatarUrl and generateAttachmentUrl: missing,
\* empty, object keys, full URLs, and keys that only resemble a URL
ObjectKeys ==
    {Undefined, Null, <<>>, <<"k">>, <<"/", "k">>,
     S_httpSlashes \o <<"x">>, S_httpsSlashes \o <<"x">>,
     S_http \o <<":", "/", "x">>, S_ftp \o <<":", "/", "/", "x">>}

FacadeBuckets == Slashed(<<"b">>)
FacadeKeys == Slashed(<<"k">>) \cup {<<"a", "/", "k">>, <<"a", "/", "/", "k">>}
ContentTypes == {<<"i", "m", "g">>}
Signers == {"ok", "error"}

InitFacade ==
    /\ env \in FacadeEnvs
    /\ disk = {}
    /\ pc = "idle"
    /\ req = NoReq
    /\ res = NoRes
    /\ fsLog = <<>>
    /\ netLog = <<>>

UploadUrl ==
    \E b \in FacadeBuckets, k \in FacadeKeys, ct \in ContentTypes, sg \in Signers :
        GenerateUploadUrl(b, k, ct, sg)

DownloadUrl ==
    \E b \in FacadeBuckets, k \in FacadeKeys, sg \in Signers : GenerateDownloadUrl(b, k, sg)

AvatarUrl ==
    \E k \in ObjectKeys, sg \in Signers : GenerateAvatarUrl(k, sg)

AttachmentUrl ==
    \E k \in ObjectKeys, sg \in Signers : GenerateAttachmentUrl(k, sg)

NextFacade ==
    \/ CallGetStorageDriver
    \/ UploadUrl
    \/ DownloadUrl
    \/ AvatarUrl
    \/ AttachmentUrl
    \/ Finish

SpecFacade == InitFacade /\ [][NextFacade]_vars

----------------------------------------------------------------------------
(* Claims about the facade specification *)

\* an environment variable that is set to a non-empty value
Present(v) == v # Undefined /\ v # <<>>

\* C3: getStorageDriver depends on KAN_STORAGE_DRIVER, S3_ENDPOINT and
\* KAN_STORAGE_DIR alone.  With KAN_STORAGE_DRIVER unset it returns s3 when
\* S3_ENDPOINT is present (whatever KAN_STORAGE_DIR is), fs when S3_ENDPOINT
\* is absent and KAN_STORAGE_DIR present, s3 otherwise; for every combination,
\* an unrecognised KAN_STORAGE_DRIVER included, the result is s3 or fs.
C3_DriverResolution ==
    req.op = "getStorageDriver" =>
        /\ res.kind = "return"
        /\ res.value \in {S_s3, S_fs}
        /\ env.KAN_STORAGE_DRIVER = Undefined =>
               res.value = IF Present(env.S3_ENDPOINT) THEN S_s3
                           ELSE IF Present(env.KAN_STORAGE_DIR) THEN S_fs
                           ELSE S_s3
        /\ res.value = S_fs <=>
               \/ env.KAN_STORAGE_DRIVER \in {S_fs, S_FS}
               \/ /\ env.KAN_STORAGE_DRIVER # S_s3
                  /\ ~Present(env.S3_ENDPOINT)
                  /\ Present(env.KAN_STORAGE_DIR)

C3_Witness ==
    /\ req.op = "getStorageDriver"
    /\ env.KAN_STORAGE_DRIVER = Undefined
    /\ env.S3_ENDPOINT = S3Endpoint
    /\ env.KAN_STORAGE_DIR = StorageDir
    /\ res = Returned(S_s3)

\* the four components as the claim joins them: slashes at the ends removed
ExpectedPublicUrl(storageUrl, uploadsPath, bucket, key) ==
    LET pathPart == CleanPart(IF uploadsPath = Undefined \/ Trim(uploadsPath) = <<>>
                              THEN S_slashUploads
                              ELSE Trim(uploadsPath))
        parts == FilterBoolean(<<pathPart, CleanPart(bucket), CleanPart(key)>>)
    IN  JoinWith(<<StripTrailingSlashes(storageUrl)>> \o parts, Sep)

\* C5: with the fs driver selected and NEXT_PUBLIC_STORAGE_URL set,
\* generateDownloadUrl(bucket, key) is the storage URL, the normalized uploads
\* path, the bucket and the key, in that order, each once, with exactly one
\* "/" at each join, whatever slashes lead or trail the four values.
C5_JoinedExactlyOnce ==
    (/\ req.op = "generateDownloadUrl"
     /\ getStorageDriver = S_fs
     /\ Truthy(env.NEXT_PUBLIC_STORAGE_URL))
    => res = Returned(ExpectedPublicUrl(env.NEXT_PUBLIC_STORAGE_URL,
                                        env.NEXT_PUBLIC_UPLOADS_PATH,
                                        req.bucket, req.key))

\* C5 for a storage URL with at most one trailing slash
C5_JoinedOnceSingleSlash ==
    (/\ req.op = "generateDownloadUrl"
     /\ getStorageDriver = S_fs
     /\ Truthy(env.NEXT_PUBLIC_STORAGE_URL)
     /\ ~EndsWith(env.NEXT_PUBLIC_STORAGE_URL, <<"/", "/">>))
    => res = Returned(ExpectedPublicUrl(env.NEXT_PUBLIC_STORAGE_URL,
                                        env.NEXT_PUBLIC_UPLOADS_PATH,
                                        req.bucket, req.key))

\* C8 as stated: whichever driver is selected, generateUploadUrl yields an
\* upload URL whenever the signer can produce one.
C8_UploadUrlUnderEveryDriver ==
    (req.op = "generateUploadUrl" /\ req.signer = "ok") =>
        (res.kind = "return" /\ res.value.expiresIn = DefaultExpiresIn)

\* C8 as amended: under the s3 driver generateUploadUrl returns the presigned
\* PUT URL for (bucket, key, contentType), valid for expiresIn seconds, or the
\* signer's error; under the fs driver it always throws "not supported" and
\* signs nothing, so the outcome does reveal the driver.
C8_UploadUrlOnlyUnderS3 ==
    req.op = "generateUploadUrl" =>
        /\ getStorageDriver = S_s3 =>
               /\ req.signer = "ok" =>
                      res = Returned(Presigned("PutObjectCommand", req.bucket, req.key,
                                               req.contentType, DefaultExpiresIn))
               /\ req.signer # "ok" => res.kind = "throw"
               /\ netLog # <<>>
        /\ getStorageDriver = S_fs =>
               /\ res = Threw("generateUploadUrl is not supported for fs storage")
               /\ netLog = <<>>

C8_Witness ==
    /\ req.op = "generateUploadUrl"
    /\ req.signer = "ok"
    /\ getStorageDriver = S_s3
    /\ res.kind = "return"
    /\ res.value.signed = "PutObjectCommand"

\* the bucket the environment configures for the operation of the request
ConfiguredBucket ==
    IF req.op = "generateAvatarUrl"
    THEN env.NEXT_PUBLIC_AVATAR_BUCKET_NAME
    ELSE env.NEXT_PUBLIC_ATTACHMENTS_BUCKET_NAME

\* the URL of (bucket, key) under the selected driver, null when it cannot
\* be generated: the public URL under fs, a GET presigned for 24 hours under s3
DriverUrl(bucket, key, signer) ==
    IF getStorageDriver = S_fs
    THEN IF Present(env.NEXT_PUBLIC_STORAGE_URL)
         THEN joinUrl(env.NEXT_PUBLIC_STORAGE_URL, <<getUploadsPublicPath, bucket, key>>)
         ELSE Null
    ELSE IF signer = "ok"
         THEN Presigned("GetObjectCommand", bucket, key, Undefined, 86400)
         ELSE Null

\* C11: generateAvatarUrl and generateAttachmentUrl never throw.  They return
\* null when the key is missing, when the bucket name is not configured, or
\* when URL generation fails under either driver; generateAvatarUrl returns
\* an input starting with http:// or https:// unchanged; otherwise the result
\* is the URL for (configured bucket, key) under the selected driver.
C11_UrlOrNull ==
    req.op \in {"generateAvatarUrl", "generateAttachmentUrl"} =>
        /\ res.kind = "return"
        /\ res.value =
              IF req.key \in {Undefined, Null, <<>>} THEN Null
              ELSE IF /\ req.op = "generateAvatarUrl"
                      /\ \/ StartsWith(req.key, S_httpSlashes)
                         \/ StartsWith(req.key, S_httpsSlashes)
                   THEN req.key
              ELSE IF ~Present(ConfiguredBucket) THEN Null
              ELSE DriverUrl(ConfiguredBucket, req.key, req.signer)

C11_Witness ==
    /\ req.op = "generateAvatarUrl"
    /\ req.key = <<"k">>
    /\ req.signer = "error"
    /\ env.NEXT_PUBLIC_AVATAR_BUCKET_NAME = <<"b">>
    /\ getStorageDriver = S_s3
    /\ netLog # <<>>
    /\ res = Returned(Null)

----------------------------------------------------------------------------
(* Health router: GET /health and GET /stats                               *)

\* checkDatabaseConnection(db): SELECT 1, failure reported as false
checkDatabaseConnection(dbPing) ==
    [value |-> dbPing = "ok", net |-> <<NetOp("db.execute", "SELECT 1")>>]

\* checkStorageConnection(): w gives what mkdir, access and the two HeadBucket
\* calls meet; each call is made only if the one before it succeeded
checkStorageConnection(w) ==
    IF getStorageDriver = S_fs
    THEN IF Falsy(env.KAN_STORAGE_DIR)
         THEN [value |-> FALSE, fs |-> <<>>, net |-> <<>>]
         ELSE LET uploadsRoot == PathResolve(<<env.KAN_STORAGE_DIR, S_uploads>>)
                  mk == FsOp("mkdir", uploadsRoot, w.mkdir)
                  ac == FsOp("access", uploadsRoot, w.access)
              IN  IF w.mkdir # "ok"
                  THEN [value |-> FALSE, fs |-> <<mk>>, net |-> <<>>]
                  ELSE [value |-> w.access = "ok", fs |-> <<mk, ac>>, net |-> <<>>]
    ELSE IF \/ Falsy(env.S3_ENDPOINT)
            \/ Falsy(env.S3_ACCESS_KEY_ID)
            \/ Falsy(env.S3_SECRET_ACCESS_KEY)
         THEN [value |-> TRUE, fs |-> <<>>, net |-> <<>>]
         ELSE LET h1 == NetOp("HeadBucket", env.NEXT_PUBLIC_AVATAR_BUCKET_NAME)
                  h2 == NetOp("HeadBucket", env.NEXT_PUBLIC_ATTACHMENTS_BUCKET_NAME)
              IN  IF w.head1 # "ok"
                  THEN [value |-> FALSE, fs |-> <<>>, net |-> <<h1>>]
                  ELSE [value |-> w.head2 = "ok", fs |-> <<>>, net |-> <<h1, h2>>]

\* the overall status with the storage outcome left out
HealthStatus_IgnoreStorage(dbHealthy, storageConfigured, storageHealthy) ==
    IF dbHealthy THEN "ok" ELSE "error"

\* health: const status = dbHealthy && (!storageConfigured || storageHealthy)
HealthStatus(dbHealthy, storageConfigured, storageHealthy) ==
    IF dbHealthy /\ (~storageConfigured \/ storageHealthy) THEN "ok" ELSE "error"

\* healthRouter.health
health(w) ==
    LET db == checkDatabaseConnection(w.db)
        st == checkStorageConnection(w)
        driver == getStorageDriver
        storageConfigured ==
            IF driver = S_fs
            THEN Truthy(env.KAN_STORAGE_DIR)
            ELSE /\ Truthy(env.S3_ENDPOINT)
                 /\ Truthy(env.S3_ACCESS_KEY_ID)
                 /\ Truthy(env.S3_SECRET_ACCESS_KEY)
        database == IF db.value THEN "ok" ELSE "error"
        storage == IF ~storageConfigured THEN "not_configured"
                   ELSE IF st.value THEN "ok" ELSE "error"
    IN  [res |-> Returned([status |-> HealthStatus(db.value, storageConfigured, st.value),
                           database |-> database,
                           storage |-> storage]),
         fs |-> st.fs,
         net |-> db.net \o st.net]

Health(w) ==
    /\ pc = "idle"
    /\ pc' = "done"
    /\ req' = [op |-> "health", world |-> w]
    /\ res' = health(w).res
    /\ fsLog' = health(w).fs
    /\ netLog' = health(w).net
    /\ UNCHANGED <<env, disk>>

\* the middleware with any presented key accepted
enforceUserIsAdmin_AnyKey(header) ==
    header # Null

\* enforceUserIsAdmin: the request goes on iff
\* ctx.headers.get("x-admin-api-key") === env("KAN_ADMIN_API_KEY")
enforceUserIsAdmin(header) ==
    header = env.KAN_ADMIN_API_KEY

\* the count queries of stats, in the order of the Promise.all array
StatsQueries ==
    << "user.getCount", "workspace.getCount", "board.getCount", "list.getCount",
       "card.getCount", "cardComment.getCount", "checklist.getCountItems",
       "checklist.getCount", "label.getCount", "cardAttachment.getCount",
       "cardActivity.getCount", "member.getActiveCount",
       "inviteLink.getActiveCount", "import.getCount",
       "member.getActiveCount", "cardActivity.getCount" >>

QueryNames == {StatsQueries[i] : i \in DOMAIN StatsQueries}

\* the body of stats' query: r[i] is what the i-th promise resolved to; the
\* array is destructured into fifteen names, the object returned carries
\* them, and the output schema keeps its fourteen fields
statsQuery(counts, failing) ==
    IF \E i \in DOMAIN StatsQueries : StatsQueries[i] \in failing
    THEN Threw("INTERNAL_SERVER_ERROR")
    ELSE LET r == [i \in DOMAIN StatsQueries |-> counts[StatsQueries[i]]]
         IN  Returned([users |-> r[1],
                       workspaces |-> r[2],
                       boards |-> r[3],
                       lists |-> r[4],
                       cards |-> r[5],
                       cardComments |-> r[6],
                       checklistItems |-> r[7],
                       checklists |-> r[8],
                       labels |-> r[9],
                       cardAttachments |-> r[10],
                       activeMembers |-> r[12],
                       activeInviteLinks |-> r[13],
                       imports |-> r[14],
                       cardActivityLogs |-> r[15]])

\* healthRouter.stats behind adminProtectedProcedure
stats(header, counts, failing) ==
    IF ~enforceUserIsAdmin(header)
    THEN [res |-> Threw("UNAUTHORIZED"), net |-> <<>>]
    ELSE [res |-> statsQuery(counts, failing),
          net |-> [i \in DOMAIN StatsQueries |-> NetOp("db.count", StatsQueries[i])]]

Stats(header, counts, failing) ==
    /\ pc = "idle"
    /\ pc' = "done"
    /\ req' = [op |-> "stats", header |-> header, counts |-> counts,
               failing |-> failing]
    /\ res' = stats(header, counts, failing).res
    /\ netLog' = stats(header, counts, failing).net
    /\ fsLog' = <<>>
    /\ UNCHANGED <<env, disk>>

----------------------------------------------------------------------------
(* Inputs and specification of the health router *)

ProbeOutcomes == {"ok", "error"}

Worlds ==
    [db : ProbeOutcomes, mkdir : ProbeOutcomes, access : ProbeOutcomes,
     head1 : ProbeOutcomes, head2 : ProbeOutcomes]

AccessKeyId == <<"i", "d">>
SecretAccessKey == <<"s", "k">>
AdminKey == <<"k">>

Credentials ==
    {<<Undefined, Undefined>>, <<AccessKeyId, Undefined>>,
     <<Undefined, SecretAccessKey>>, <<AccessKeyId, SecretAccessKey>>,
     <<<<>>, SecretAccessKey>>}

AdminKeyValues == {Undefined, <<>>, AdminKey}

\* what ctx.headers.get("x-admin-api-key") can give: null when the header
\* is absent, its value otherwise
HeaderValues == {Null, <<>>, AdminKey, <<"x">>, <<"k", "k">>}

HealthEnv(d, e, dir, c, k) ==
    [DefaultEnv EXCEPT !.KAN_STORAGE_DRIVER = d,
                       !.S3_ENDPOINT = e,
                       !.KAN_STORAGE_DIR = dir,
                       !.S3_ACCESS_KEY_ID = c[1],
                       !.S3_SECRET_ACCESS_KEY = c[2],
                       !.NEXT_PUBLIC_AVATAR_BUCKET_NAME = <<"a">>,
                       !.NEXT_PUBLIC_ATTACHMENTS_BUCKET_NAME = <<"t">>,
                       !.KAN_ADMIN_API_KEY = k]

HealthEnvs ==
    {HealthEnv(d, e, dir, c, Undefined) :
        d \in {Undefined, S_fs, S_s3, S_gcs}, e \in EndpointValues,
        dir \in StorageDirValues, c \in Credentials}
    \cup {HealthEnv(Undefined, Undefined, Undefined, <<Undefined, Undefined>>, k) :
            k \in AdminKeyValues}

\* two contents of the database: every query with a count of its own, and
\* an empty database
CountTables ==
    { [n \in QueryNames |-> CHOOSE i \in DOMAIN StatsQueries : StatsQueries[i] = n],
      [n \in QueryNames |-> 0] }

FailingSets == {{}} \cup {{n} : n \in QueryNames}

InitHealth ==
    /\ env \in HealthEnvs
    /\ disk = {}
    /\ pc = "idle"
    /\ req = NoReq
    /\ res = NoRes
    /\ fsLog = <<>>
    /\ netLog = <<>>

HealthCheck == \E w \in Worlds : Health(w)

StatsCall ==
    \E header \in HeaderValues, counts \in CountTables, failing \in FailingSets :
        Stats(header, counts, failing)

NextHealth == HealthCheck \/ StatsCall \/ Finish

SpecHealth == InitHealth /\ [][NextHealth]_vars

----------------------------------------------------------------------------
(* Claims about the health router *)

\* storage is configured for the driver the environment resolves to
ConfiguredForDriver ==
    IF getStorageDriver = S_fs
    THEN Present(env.KAN_STORAGE_DIR)
    ELSE /\ Present(env.S3_ENDPOINT)
         /\ Present(env.S3_ACCESS_KEY_ID)
         /\ Present(env.S3_SECRET_ACCESS_KEY)

\* every probe of the resolved driver's storage succeeded
ProbesSucceed(w) ==
    IF getStorageDriver = S_fs
    THEN w.mkdir = "ok" /\ w.access = "ok"
    ELSE w.head1 = "ok" /\ w.head2 = "ok"

\* C4: the health check returns status "ok" iff the database check succeeds
\* and (storage is unconfigured for the resolved driver or the storage check
\* succeeds), and "error" otherwise; it always returns a value, database and
\* storage failures included.
C4_HealthOkIff ==
    req.op = "health" =>
        /\ res.kind = "return"
        /\ res.value.status \in {"ok", "error"}
        /\ res.value.status = "ok" <=>
               /\ req.world.db = "ok"
               /\ ~ConfiguredForDriver \/ ProbesSucceed(req.world)
        /\ res.value.database = (IF req.world.db = "ok" THEN "ok" ELSE "error")

C4_Witness ==
    /\ req.op = "health"
    /\ req.world.db = "ok"
    /\ getStorageDriver = S_fs
    /\ ConfiguredForDriver
    /\ req.world.mkdir = "ok"
    /\ req.world.access = "error"
    /\ res.kind = "return"
    /\ res.value.status = "error"
    /\ Len(fsLog) = 2

\* the request carries the configured admin key
CarriesAdminKey ==
    /\ req.header # Null
    /\ env.KAN_ADMIN_API_KEY # Undefined
    /\ req.header = env.KAN_ADMIN_API_KEY

EntityQuery ==
    [users |-> "user.getCount",
     workspaces |-> "workspace.getCount",
     boards |-> "board.getCount",
     lists |-> "list.getCount",
     cards |-> "card.getCount",
     cardComments |-> "cardComment.getCount",
     cardAttachments |-> "cardAttachment.getCount",
     cardActivityLogs |-> "cardActivity.getCount",
     labels |-> "label.getCount",
     checklists |-> "checklist.getCount",
     checklistItems |-> "checklist.getCountItems",
     activeMembers |-> "member.getActiveCount",
     activeInviteLinks |-> "inviteLink.getActiveCount",
     imports |-> "import.getCount"]

\* C12: each field of the /stats result is the count of the entity it is
\* named after, for every assignment of values returned by the count queries
\* (cardActivityLogs the card-activity count, activeMembers the active-member
\* count), and a failure of any one query yields INTERNAL_SERVER_ERROR, never
\* a partial result.
C12_FieldsNamedAfterEntity ==
    (req.op = "stats" /\ enforceUserIsAdmin(req.header)) =>
        IF req.failing = {}
        THEN /\ res.kind = "return"
             /\ DOMAIN res.value = DOMAIN EntityQuery
             /\ \A f \in DOMAIN EntityQuery : res.value[f] = req.counts[EntityQuery[f]]
        ELSE res = Threw("INTERNAL_SERVER_ERROR")

\* C12 with cardActivityLogs left out: every other field, and the failure case
C12_OtherFieldsNamedAfterEntity ==
    (req.op = "stats" /\ enforceUserIsAdmin(req.header)) =>
        IF req.failing = {}
        THEN /\ res.kind = "return"
             /\ DOMAIN res.value = DOMAIN EntityQuery
             /\ \A f \in DOMAIN EntityQuery \ {"cardActivityLogs"} :
                    res.value[f] = req.counts[EntityQuery[f]]
             /\ res.value.cardActivityLogs = req.counts["member.getActiveCount"]
        ELSE res = Threw("INTERNAL_SERVER_ERROR")

----------------------------------------------------------------------------
(* Edge middleware (apps/web/src/middleware.ts) *)

S_apiUploads == <<"/", "a", "p", "i", "/", "u", "p", "l", "o", "a", "d", "s">>
S_login == <<"/", "l", "o", "g", "i", "n">>
S_cloud == <<"c", "l", "o", "u", "d">>

\* the middleware's normalizeUploadsPath(pathname): null for "/"
normalizeUploadsPath(pathname) ==
    LET trimmed == Trim(IF pathname = Undefined THEN <<>> ELSE pathname)
        value == IF Len(trimmed) > 0 THEN trimmed ELSE S_slashUploads
    IN  IF value = Sep THEN Null
        ELSE LET withLeadingSlash == IF StartsWith(value, Sep) THEN value ELSE Sep \o value
             IN  IF EndsWith(withLeadingSlash, Sep)
                 THEN DropLast(withLeadingSlash)
                 ELSE withLeadingSlash

Rewrite(pathname) == [kind |-> "rewrite", pathname |-> pathname]
Redirect(pathname) == [kind |-> "redirect", pathname |-> pathname]
PassThrough == [kind |-> "next"]

\* middleware(request), request.nextUrl.pathname being pathname
middleware(pathname) ==
    LET uploadsPath == normalizeUploadsPath(env.NEXT_PUBLIC_UPLOADS_PATH)
    IN  IF /\ Truthy(uploadsPath)
           /\ (pathname = uploadsPath \/ StartsWith(pathname, uploadsPath \o Sep))
        THEN Rewrite(S_apiUploads \o SliceFrom(pathname, Len(uploadsPath)))
        ELSE IF pathname = Sep /\ env.NEXT_PUBLIC_KAN_ENV # S_cloud
        THEN Redirect(S_login)
        ELSE PassThrough

Middleware(pathname) ==
    /\ pc = "idle"
    /\ pc' = "done"
    /\ req' = [op |-> "middleware", pathname |-> pathname]
    /\ res' = middleware(pathname)
    /\ UNCHANGED <<env, disk, fsLog, netLog>>

\* NEXT_PUBLIC_UPLOADS_PATH: unset, blank, "/", with and without slashes
\* around it, two segments, and slashes only
MiddlewareUploadsPaths ==
    UploadsPathValues \cup {<<"u", "/", "v">>} \cup {Slashes(n) : n \in 1..MaxSlashes}

KanEnvValues == {Undefined, <<>>, S_cloud, <<"C", "l", "o", "u", "d">>}

MiddlewareEnv(up, k) ==
    [DefaultEnv EXCEPT !.NEXT_PUBLIC_UPLOADS_PATH = up, !.NEXT_PUBLIC_KAN_ENV = k]

MiddlewareEnvs ==
    {MiddlewareEnv(up, k) : up \in MiddlewareUploadsPaths, k \in KanEnvValues}

\* request pathnames: the root, the uploads prefixes themselves, paths below
\* them, paths that only share a prefix with them, and other pages
Pathnames ==
    { Sep, <<"/", "/">>, S_login,
      S_slashUploads, S_slashUploads \o Sep, S_slashUploads \o <<"/", "b", "/", "k">>,
      S_slashUploads \o <<"X">>, S_slashUploads \o <<"/", "/", "k">>,
      <<"/", "u">>, <<"/", "u", "/">>, <<"/", "u", "/", "b", "/", "k">>,
      <<"/", "u", "X">>, <<"/", "u", "/", "v">>, <<"/", "u", "/", "v", "/", "k">>,
      <<"/", "/", "u">> }

InitMiddleware ==
    /\ env \in MiddlewareEnvs
    /\ disk = {}
    /\ pc = "idle"
    /\ req = NoReq
    /\ res = NoRes
    /\ fsLog = <<>>
    /\ netLog = <<>>

MiddlewareRequest == \E pathname \in Pathnames : Middleware(pathname)

NextMiddleware == MiddlewareRequest \/ Finish

SpecMiddleware == InitMiddleware /\ [][NextMiddleware]_vars

\* the uploads path as the claims normalize it: trimmed, "/uploads" when
\* blank, one leading slash added if none, one trailing slash removed
NormalizedUploadsPath ==
    LET up == env.NEXT_PUBLIC_UPLOADS_PATH
        trimmed == IF up = Undefined THEN <<>> ELSE Trim(up)
        value == IF trimmed = <<>> THEN S_slashUploads ELSE trimmed
        led == IF Head(value) = "/" THEN value ELSE Sep \o value
    IN  IF Len(led) > 1 /\ led[Len(led)] = "/" THEN SubSeq(led, 1, Len(led) - 1) ELSE led

\* rule (1) of the middleware applies to the request
UnderUploadsPath(pathname) ==
    /\ NormalizedUploadsPath # Sep
    /\ \/ pathname = NormalizedUploadsPath
       \/ StartsWith(pathname, NormalizedUploadsPath \o Sep)

\* C13: the middleware decides each request by one rule, in this priority:
\* (1) the normalized uploads path is not "/" and the pathname equals it or
\* starts with it followed by "/": rewrite to /api/uploads plus the unchanged
\* remainder; (2) else the pathname is "/" and NEXT_PUBLIC_KAN_ENV is not
\* "cloud": redirect to /login; (3) else pass through.
C13_OneRuleInPriority ==
    req.op = "middleware" =>
        res = IF UnderUploadsPath(req.pathname)
              THEN Rewrite(S_apiUploads
                           \o SubSeq(req.pathname, Len(NormalizedUploadsPath) + 1,
                                     Len(req.pathname)))
              ELSE IF req.pathname = Sep /\ env.NEXT_PUBLIC_KAN_ENV # S_cloud
              THEN Redirect(S_login)
              ELSE PassThrough

\* C13 for an uploads path that does not normalize to "/" through a second slash
C13_OneRuleUnlessSlashesOnly ==
    (req.op = "middleware" /\ normalizeUploadsPath(env.NEXT_PUBLIC_UPLOADS_PATH) # Sep)
        => C13_OneRuleInPriority

----------------------------------------------------------------------------
(* The three driver resolutions, under the file-serving specification *)

\* C14: for every combination of KAN_STORAGE_DRIVER, S3_ENDPOINT and
\* KAN_STORAGE_DIR, the driver the upload file server and the attachment
\* downloader use for a request equals the driver the facade's
\* getStorageDriver returns.
C14_DriversAgree ==
    /\ req.op = "upload" => uploadDriver = getStorageDriver
    /\ req.op = "attachment" => downloadGetStorageDriver = getStorageDriver

\* C14 where it does hold: KAN_STORAGE_DRIVER is fs or s3 in lower case, or
\* it is unset and S3_ENDPOINT and KAN_STORAGE_DIR are not both set
C14_DriversAgreeWhenUnambiguous ==
    (\/ env.KAN_STORAGE_DRIVER \in {S_fs, S_s3}
     \/ /\ env.KAN_STORAGE_DRIVER = Undefined
        /\ ~(Present(env.S3_ENDPOINT) /\ Present(env.KAN_STORAGE_DIR)))
    => C14_DriversAgree

----------------------------------------------------------------------------
(* Round trip of a download URL under the fs driver: facade, middleware,   *)
(* upload file server, attachment downloader, deleteObject                 *)

NotRouted == [ok |-> FALSE, status |-> 404]

\* req.query.path of the upload file server for a request path: the
\* segments below /api/uploads/, percent-decoded by the router; a path
\* elsewhere never reaches the handler
RoutedParts(pathname) ==
    IF ~StartsWith(pathname, S_apiUploads \o Sep) THEN NotRouted
    ELSE LET raw == Split(SliceFrom(pathname, Len(S_apiUploads) + 1), "/")
         IN  IF \E i \in 1..Len(raw) : MalformedEscape(raw[i]) THEN NotRouted
             ELSE [ok |-> TRUE, parts |-> DecodeAll(raw)]

\* what a GET of the path gets from the middleware and then the upload file
\* server: the file resolved, or the status of the refusal
ServedFile(pathname) ==
    LET mw == middleware(pathname)
    IN  IF mw.kind # "rewrite" THEN NotRouted
        ELSE LET routed == RoutedParts(mw.pathname)
             IN  IF ~routed.ok THEN NotRouted
                 ELSE UploadValidate("GET", routed.parts)

\* generateDownloadUrl(bucket, key) followed through every component
RoundTrip(bucket, key) ==
    LET url == generateDownloadUrl(bucket, key, DefaultExpiresIn, "ok")
        parsed == IF url.kind = "return" THEN ParseUrl(url.value) ELSE [ok |-> FALSE]
    IN  /\ pc = "idle"
        /\ pc' = "done"
        /\ req' = [op |-> "roundTrip", bucket |-> bucket, key |-> key]
        /\ res' = [kind |-> "roundTrip",
                   url |-> url,
                   rewritten |-> IF parsed.ok THEN middleware(parsed.pathname)
                                 ELSE PassThrough,
                   served |-> IF parsed.ok THEN ServedFile(parsed.pathname) ELSE NotRouted,
                   downloaded |-> IF parsed.ok THEN AttachmentRoute(parsed)
                                  ELSE [way |-> "reject", status |-> 400],
                   unlinked |-> DeleteCandidate(env.KAN_STORAGE_DIR, bucket, key)]
        /\ UNCHANGED <<env, disk, fsLog, netLog>>

RoundTripEnv(url, up) ==
    [DefaultEnv EXCEPT !.KAN_STORAGE_DRIVER = S_fs,
                       !.KAN_STORAGE_DIR = StorageDir,
                       !.NEXT_PUBLIC_STORAGE_URL = url,
                       !.NEXT_PUBLIC_UPLOADS_PATH = up]

RoundTripEnvs ==
    {RoundTripEnv(url, up) :
        url \in {StorageOrigin, StorageOrigin \o Sep}, up \in UploadsPathValues}

\* buckets matching [a-zA-Z0-9._-]+
RoundTripBuckets == {<<"b">>, <<"A", ".", "1", "_", "-">>}

\* keys of non-empty segments other than "." and ".."
RoundTripKeys ==
    {<<"k">>, <<"a", "/", "k">>, <<".", "k">>, <<".", ".", ".">>, <<"a", "/", ".", ".", "k">>}

InitRoundTrip ==
    /\ env \in RoundTripEnvs
    /\ disk = {}
    /\ pc = "idle"
    /\ req = NoReq
    /\ res = NoRes
    /\ fsLog = <<>>
    /\ netLog = <<>>

FollowUrl == \E b \in RoundTripBuckets, k \in RoundTripKeys : RoundTrip(b, k)

NextRoundTrip == FollowUrl \/ Finish

SpecRoundTrip == InitRoundTrip /\ [][NextRoundTrip]_vars

\* uploadsRoot/<bucket>/<key>
FileOf(bucket, key) ==
    StorageDir \o Sep \o S_uploads \o Sep \o bucket \o Sep \o key

\* the four components meet in the file of (bucket, key)
RoundTripCloses ==
    /\ res.url.kind = "return"
    /\ res.rewritten = Rewrite(S_apiUploads \o Sep \o req.bucket \o Sep \o req.key)
    /\ res.served = Accepted(FileOf(req.bucket, req.key))
    /\ res.unlinked = FileOf(req.bucket, req.key)
    /\ res.downloaded = [way |-> "local", filePath |-> FileOf(req.bucket, req.key)]

\* C15: under the fs driver, for every NEXT_PUBLIC_UPLOADS_PATH (unset,
\* blank, "/", with or without leading/trailing slash), every bucket matching
\* [a-zA-Z0-9._-]+ and every key of non-empty segments other than "." and
\* "..", the pathname of generateDownloadUrl(bucket, key) is rewritten by the
\* middleware to /api/uploads/<bucket>/<key>, the upload file server resolves
\* it to uploadsRoot/<bucket>/<key>, the file deleteObject(bucket, key) would
\* unlink, and the downloader's local branch resolves the URL to that file.
C15_RoundTrip ==
    req.op = "roundTrip" => RoundTripCloses

\* C15 for every uploads path but "/", with at most one slash at each end
C15_RoundTripUnlessRoot ==
    LET up == IF env.NEXT_PUBLIC_UPLOADS_PATH = Undefined
              THEN <<>>
              ELSE Trim(env.NEXT_PUBLIC_UPLOADS_PATH)
    IN  (/\ req.op = "roundTrip"
         /\ up # Sep
         /\ ~StartsWith(up, <<"/", "/">>)
         /\ ~EndsWith(up, <<"/", "/">>))
        => RoundTripCloses

----------------------------------------------------------------------------
(* Completion of responses, under the file-serving specification *)

\* the finished request got one completed response from its handler, and
\* nothing was written as status or JSON once bytes of the body had gone out
OneCompletedResponse ==
    /\ res.kind = "http"
    /\ res.ended
    /\ ~res.thrown
    /\ res.jsonWrites = (IF res.body = "json" THEN 1 ELSE 0)

\* C16: every request to the upload file server or the attachment downloader
\* ends in exactly one completed response, and once streaming of the body has
\* begun no status code or JSON error body is written: a stream failure after
\* headers or bytes were sent only terminates the response.
C16_OneResponseNoLateWrite ==
    (pc = "done" /\ req.op \in {"upload", "attachment"}) => OneCompletedResponse

\* C16 for the upload file server alone
C16_UploadOneResponse ==
    (pc = "done" /\ req.op = "upload") => OneCompletedResponse

====
